---- MODULE Spec2Model ----
(***************************************************************************)
(* A model of scripts/setup_auth_auto.py.                                  *)
(*                                                                         *)
(* Two state machines share the module:                                    *)
(*   Spec      the OAuth callback handler (OAuthCallbackHandler.do_GET)    *)
(*             serving GET requests against the class-level CallbackResult *)
(*   SpecMain  the process: parse_args, _bootstrap_env_and_reexec, main    *)
(*             and the __main__ guard that turns outcomes into exit codes  *)
(*                                                                         *)
(* Python values.  A str is a sequence of pieces (TLA+ strings), so that   *)
(* "" is << >> and an f-string is a concatenation.  An Optional[str] is a  *)
(* sequence of at most one str: None is << >> and the str s is << s >>.    *)
(***************************************************************************)
EXTENDS Integers, Sequences, FiniteSets, TLC

VARIABLES
    result,          \* OAuthCallbackHandler.result : [code, error], each Optional[str]
    expected_state,  \* OAuthCallbackHandler.expected_state : str
    local,           \* do_GET's locals for the last request: [kind, path, rule, state,
                     \* code, error]; kind is "none" before the first request and
                     \* "restarted" on a later server that has handled no request yet
    before,          \* OAuthCallbackHandler.result as the last step found it
    status,          \* HTTP status of the current server's last response: 0 none yet,
                     \* -1 no response
    message,         \* the (escaped) message of that response
    stack,           \* running processes, root first: [argv, in_venv, pc, childrc, body];
                     \* body: main went on past _bootstrap_env_and_reexec
    requirements,    \* os.path.exists(requirements.txt)
    events,          \* what has happened so far: interrupt, exception, pipeline_failed, killed
    spawned,         \* argv of every child _bootstrap_env_and_reexec has spawned
    venv_runs,       \* processes that went on to create/prepare the .venv
    root_exit        \* the root process's end: [arg, status, why], or NotExited

hvars == <<result, expected_state, local, before, status, message>>
mvars == <<stack, requirements, events, spawned, venv_runs, root_exit>>
vars == <<hvars, mvars>>

----------------------------------------------------------------------------
\* Bounds of the model.

\* Most values one query key carries in a request (repeated parameters).
MaxRepeat == 1
\* Command-line arguments given to the root process.
MaxArgs == 2
\* Nesting of re-launched processes the model follows.
MaxDepth == 3

----------------------------------------------------------------------------
\* Python values.

None == << >>
Some(s) == << s >>
EmptyStr == << >>

\* bool(x) of an Optional[str]: None and "" are falsy.
Truthy(o) == o # None /\ o[1] # EmptyStr

\* All sequences over S of length at most n.
SeqsUpTo(S, n) == UNION { [1..k -> S] : k \in 0..n }

\* The number of positions of sequence s holding x.
Count(s, x) == Cardinality({ i \in 1..Len(s) : s[i] = x })

----------------------------------------------------------------------------
\* The callback handler.

CALLBACK_PATH == << "/exchange_token" >>

MSG_RECEIVED ==
    << "Authorization received. You can close this tab and return to the terminal." >>
MSG_FAILED == << "Authorization failed: " >>
ERR_PROVIDER == << "Strava returned error: " >>
ERR_MISSING_CODE == << "Missing code query parameter in callback URL." >>
ERR_STATE_MISMATCH == << "State mismatch in callback. Please retry." >>

\* CallbackResult(): both fields default to None.
CallbackResult == [code |-> None, error |-> None]

\* The request targets a client can send.  A target is origin-form (no
\* authority) or absolute-form (scheme://authority/path); the query string is
\* carried apart, as the raw values each key holds, in order of appearance.
Authorities == { << >>, << "localhost" >>, << "[", "::1" >> }
Paths == { CALLBACK_PATH, << "/exchange_token", "/" >>, << "/" >>, << "/other" >> }
RawValues == { EmptyStr, << "a" >>, << "%3C" >> }
ValueLists == SeqsUpTo(RawValues, MaxRepeat)
Queries == { [code |-> c, state |-> s, error |-> e] : c \in ValueLists, s \in ValueLists,
                                                     e \in ValueLists }
Targets == [authority : Authorities, path : Paths]

\* urllib.parse.urlparse(self.path): raises ValueError("Invalid IPv6 URL") when
\* the authority holds one bracket without the other; otherwise the path is
\* the target's path, stripped of authority, params, query and fragment.
Has(s, piece) == \E i \in 1..Len(s) : s[i] = piece
ValueError == [ok |-> FALSE, path |-> << >>]
urlparse(t) ==
    IF Has(t.authority, "[") # Has(t.authority, "]")
    THEN ValueError
    ELSE [ok |-> TRUE, path |-> t.path]

\* urllib.parse.unquote_plus on one piece of a raw value.
UnquotePiece(p) ==
    CASE p = "%3C" -> "<"
      [] p = "%3E" -> ">"
      [] p = "%26" -> "&"
      [] p = "+" -> " "
      [] OTHER -> p

RECURSIVE Unquote(_)
Unquote(s) ==
    IF s = << >> THEN << >> ELSE << UnquotePiece(Head(s)) >> \o Unquote(Tail(s))

\* The non-blank values of a key, decoded, in order (keep_blank_values=False).
RECURSIVE NonBlank(_)
NonBlank(vs) ==
    IF vs = << >> THEN << >>
    ELSE IF Head(vs) = EmptyStr THEN NonBlank(Tail(vs))
    ELSE << Unquote(Head(vs)) >> \o NonBlank(Tail(vs))

\* urllib.parse.parse_qs(parsed.query): key -> list of values; a key with no
\* non-blank value is absent (modelled as the empty list).
parse_qs(q) ==
    [code |-> NonBlank(q.code), state |-> NonBlank(q.state), error |-> NonBlank(q.error)]

\* query.get(key, [""])[0], given the list the key holds
QueryGet(values) == IF values = << >> THEN EmptyStr ELSE values[1]

\* A variant that checks the state before the error and the code.
RuleStateFirst(error, code, state, expected) ==
    IF state # expected THEN "mismatch"
    ELSE IF error # EmptyStr THEN "provider"
    ELSE IF code = EmptyStr THEN "missing"
    ELSE "code"

\* The branch do_GET takes (the if / elif / elif / else chain).
Rule(error, code, state, expected) ==
    IF error # EmptyStr THEN "provider"
    ELSE IF code = EmptyStr THEN "missing"
    ELSE IF state # expected THEN "mismatch"
    ELSE "code"

\* The assignment the branch makes to self.__class__.result.
WriteResult(res, rule, error, code) ==
    CASE rule = "provider" -> [res EXCEPT !.error = Some(ERR_PROVIDER \o error)]
      [] rule = "missing" -> [res EXCEPT !.error = Some(ERR_MISSING_CODE)]
      [] rule = "mismatch" -> [res EXCEPT !.error = Some(ERR_STATE_MISMATCH)]
      [] OTHER -> [res EXCEPT !.code = Some(code)]

\* html.escape(s, quote=True) on one piece.
EscapePiece(p) ==
    CASE p = "<" -> "&lt;"
      [] p = ">" -> "&gt;"
      [] p = "&" -> "&amp;"
      [] OTHER -> p

RECURSIVE html_escape(_)
html_escape(s) ==
    IF s = << >> THEN << >> ELSE << EscapePiece(Head(s)) >> \o html_escape(Tail(s))

\* A variant that lets a code in the result hide the error.
PageMessageCodeFirst(res) ==
    IF Truthy(res.error) /\ ~Truthy(res.code) THEN MSG_FAILED \o res.error[1] ELSE MSG_RECEIVED

\* The message of the page, before escaping: taken from the class-level result.
PageMessage(res) ==
    IF Truthy(res.error) THEN MSG_FAILED \o res.error[1] ELSE MSG_RECEIVED

\* A variant that accepts every path under the callback path.
IsCallbackPathPrefix(path) == path # << >> /\ path[1] = CALLBACK_PATH[1]

\* parsed.path != CALLBACK_PATH
IsCallbackPath(path) == path = CALLBACK_PATH

NoLocals == [rule |-> "none", state |-> EmptyStr, code |-> EmptyStr, error |-> EmptyStr]

\* OAuthCallbackHandler.do_GET for the request (t, q).
do_GET(t, q) ==
    \E parsed \in { urlparse(t) }, query \in { parse_qs(q) } :
    \E state \in { QueryGet(query.state) }, code \in { QueryGet(query.code) },
       error \in { QueryGet(query.error) } :
    \E rule \in { Rule(error, code, state, expected_state) } :
    \E written \in { WriteResult(result, rule, error, code) } :
        /\ before' = result
        /\ UNCHANGED expected_state
        /\ IF ~parsed.ok
           THEN \* urlparse raises: the handler ends without a response
                /\ local' = [kind |-> "raised", path |-> << >>] @@ NoLocals
                /\ status' = -1
                /\ message' = << >>
                /\ UNCHANGED result
           ELSE IF ~IsCallbackPath(parsed.path)
           THEN \* send_error(404, "Not Found"); return
                /\ local' = [kind |-> "notfound", path |-> parsed.path] @@ NoLocals
                /\ status' = 404
                /\ message' = << "Not Found" >>
                /\ UNCHANGED result
           ELSE /\ local' = [kind |-> "callback", path |-> parsed.path, rule |-> rule,
                             state |-> state, code |-> code, error |-> error]
                /\ result' = written
                /\ status' = 200
                /\ message' = html_escape(PageMessage(written))

\* The queries worth telling apart for target t: do_GET reads the query only
\* once the path has passed the check, so other targets carry the empty one.
EmptyQuery == [code |-> << >>, state |-> << >>, error |-> << >>]
QueriesFor(t) ==
    IF urlparse(t).ok /\ IsCallbackPath(urlparse(t).path) THEN Queries ELSE { EmptyQuery }

\* A request arrives and the server hands it to a new handler instance.
HandleRequest ==
    /\ \E t \in Targets : \E q \in QueriesFor(t) : do_GET(t, q)
    /\ UNCHANGED mvars

\* Another server is started on the handler class (a next authorization
\* attempt in the same process).  Binding a server to OAuthCallbackHandler
\* assigns neither class attribute: result and expected_state are evaluated
\* once, in the class body.
StartAttempt ==
    /\ local' = [kind |-> "restarted", path |-> << >>] @@ NoLocals
    /\ before' = result
    /\ status' = 0
    /\ message' = << >>
    /\ UNCHANGED <<result, expected_state>>
    /\ UNCHANGED mvars

NotExited == [arg |-> None, status |-> -1, why |-> "running"]

\* The class body: result = CallbackResult(), expected_state = "".  Nothing
\* in the script assigns either attribute afterwards, so expected_state stays
\* "" and a callback without a state parameter passes the state comparison.
HandlerInit ==
    /\ result = CallbackResult
    /\ expected_state = EmptyStr
    /\ local = [kind |-> "none", path |-> << >>] @@ NoLocals
    /\ before = CallbackResult
    /\ status = 0
    /\ message = << >>

MainIdle ==
    /\ stack = << >>
    /\ requirements = FALSE
    /\ events = { }
    /\ spawned = << >>
    /\ venv_runs = 0
    /\ root_exit = NotExited

Init == HandlerInit /\ MainIdle

Next == HandleRequest \/ StartAttempt

Spec == Init /\ [][Next]_vars

----------------------------------------------------------------------------
\* The process: main and the __main__ guard.

\* The arguments a command line is made of (sys.argv[1:]); all are flags
\* parse_args accepts.  argparse matches a unique prefix of a long option, so
\* "--env-boot" sets env_bootstrapped too.
Flags == { "--no-bootstrap-env", "--env-bootstrapped", "--env-boot", "--local-only",
           "--no-watch" }
CommandLines == SeqsUpTo(Flags, MaxArgs)

\* The return codes the pipeline may end with, as subprocess.run reports them.
ReturnCodes == { 0, 1, 2, 130 }

\* What subprocess.call returns for a child a signal killed: minus the signal
\* number (here SIGKILL).
KilledReturnCode == 0 - 9

\* parse_args(): the options main reads.
parse_args(argv) ==
    [no_bootstrap_env |-> Has(argv, "--no-bootstrap-env"),
     env_bootstrapped |-> Has(argv, "--env-bootstrapped") \/ Has(argv, "--env-boot"),
     local_only |-> Has(argv, "--local-only")]

\* The exit status of a process that ends by SystemExit(arg): None is 0, an
\* int is taken modulo 256.
ExitStatus(arg) == IF arg = None THEN 0 ELSE arg[1] % 256

EXIT_CANCELLED == 130
EXIT_ERROR == 1

\* A variant that forgets to mark the child as bootstrapped.
child_args_unmarked(argv) == SelectSeq(argv, LAMBDA a : a # "--env-bootstrapped")

\* [arg for arg in sys.argv[1:] if arg != "--env-bootstrapped"] + ["--env-bootstrapped"]
child_args(argv) ==
    Append(SelectSeq(argv, LAMBDA a : a # "--env-bootstrapped"), "--env-bootstrapped")

\* The first guard of _bootstrap_env_and_reexec.
BootstrapSkipped(args, in_venv) ==
    args.no_bootstrap_env \/ args.env_bootstrapped \/ in_venv

Process(argv, in_venv) ==
    [argv |-> argv, in_venv |-> in_venv, pc |-> "bootstrap", childrc |-> 0, body |-> FALSE]

Top == stack[Len(stack)]
Running == stack # << >> /\ root_exit = NotExited

\* The stack once process i has ended by SystemExit(arg), the processes it
\* launched being gone: the root is done, a child's status is what
\* subprocess.call returns to its parent.
Ended(i, arg) ==
    IF i = 1
    THEN << [stack[1] EXCEPT !.pc = "exited"] >>
    ELSE SubSeq(stack, 1, i - 2)
            \o << [stack[i - 1] EXCEPT !.pc = "reaped", !.childrc = ExitStatus(arg)] >>

RootExit(i, arg, why) ==
    IF i = 1
    THEN root_exit' = [arg |-> arg, status |-> ExitStatus(arg), why |-> why]
    ELSE UNCHANGED root_exit

\* The running process ends by SystemExit(arg).
Exit(arg, why) ==
    /\ stack' = Ended(Len(stack), arg)
    /\ RootExit(Len(stack), arg, why)

\* _bootstrap_env_and_reexec up to the two early returns.
Bootstrap ==
    /\ Running
    /\ Top.pc = "bootstrap"
    /\ IF BootstrapSkipped(parse_args(Top.argv), Top.in_venv) \/ ~requirements
       THEN /\ stack' = [stack EXCEPT ![Len(stack)].pc = "body",
                                        ![Len(stack)].body = TRUE]
            /\ UNCHANGED venv_runs
       ELSE /\ stack' = [stack EXCEPT ![Len(stack)].pc = "venv"]
            /\ venv_runs' = venv_runs + 1
    /\ UNCHANGED <<requirements, events, spawned, root_exit>>
    /\ UNCHANGED hvars

\* Creating the .venv, repairing pip and installing the requirements succeed,
\* and the script is re-launched with the venv's interpreter: the child runs
\* inside the virtualenv.
Relaunch ==
    /\ Running
    /\ Top.pc = "venv"
    /\ Len(stack) < MaxDepth
    /\ stack' = [stack EXCEPT ![Len(stack)].pc = "wait"]
                    \o << Process(child_args(Top.argv), TRUE) >>
    /\ spawned' = Append(spawned, child_args(Top.argv))
    /\ UNCHANGED <<requirements, events, venv_runs, root_exit>>
    /\ UNCHANGED hvars

\* One of those steps fails (CalledProcessError from _run_stream, RuntimeError
\* from _ensure_venv_pip): the exception escapes main.
BootstrapFails ==
    /\ Running
    /\ Top.pc = "venv"
    /\ Exit(Some(EXIT_ERROR), "exception")
    /\ events' = events \cup { "exception" }
    /\ UNCHANGED <<requirements, spawned, venv_runs>>
    /\ UNCHANGED hvars

\* The rest of main: without --local-only it falls off the end (None); with
\* it, the pipeline runs and main returns its return code when that is not 0.
Body ==
    /\ Running
    /\ Top.pc = "body"
    /\ IF parse_args(Top.argv).local_only
       THEN \E rc \in ReturnCodes :
                /\ stack' = Ended(Len(stack), Some(rc))
                /\ RootExit(Len(stack), Some(rc),
                            IF rc = 0 THEN "success" ELSE "pipeline_failed")
                /\ events' = IF rc = 0 THEN events ELSE events \cup { "pipeline_failed" }
       ELSE /\ Exit(None, "success")
            /\ UNCHANGED events
    /\ UNCHANGED <<requirements, spawned, venv_runs>>
    /\ UNCHANGED hvars

\* load_config or subprocess.run raises (unreadable YAML, no interpreter).
BodyRaises ==
    /\ Running
    /\ Top.pc = "body"
    /\ parse_args(Top.argv).local_only
    /\ Exit(Some(EXIT_ERROR), "exception")
    /\ events' = events \cup { "exception" }
    /\ UNCHANGED <<requirements, spawned, venv_runs>>
    /\ UNCHANGED hvars

\* raise SystemExit(subprocess.call(...)) once the child has ended.
ReexecExit ==
    /\ Running
    /\ Top.pc = "reaped"
    /\ Exit(Some(Top.childrc), "child")
    /\ UNCHANGED <<requirements, events, spawned, venv_runs>>
    /\ UNCHANGED hvars

\* A signal kills the re-launched child: subprocess.call returns minus the
\* signal number.
ChildKilled ==
    /\ Running
    /\ Len(stack) > 1
    /\ stack' = SubSeq(stack, 1, Len(stack) - 2)
                    \o << [stack[Len(stack) - 1] EXCEPT !.pc = "reaped",
                                                        !.childrc = KilledReturnCode] >>
    /\ events' = events \cup { "killed" }
    /\ UNCHANGED <<requirements, spawned, venv_runs, root_exit>>
    /\ UNCHANGED hvars

\* The operator interrupts: process i (the whole foreground group, or the
\* child alone) gets KeyboardInterrupt, which the __main__ guard turns into
\* SystemExit(130).
Interrupt ==
    /\ Running
    /\ \E i \in 1..Len(stack) :
        /\ stack' = Ended(i, Some(EXIT_CANCELLED))
        /\ RootExit(i, Some(EXIT_CANCELLED), "interrupt")
    /\ events' = events \cup { "interrupt" }
    /\ UNCHANGED <<requirements, spawned, venv_runs>>
    /\ UNCHANGED hvars

MainInit ==
    /\ \E argv \in CommandLines, v \in BOOLEAN : stack = << Process(argv, v) >>
    /\ requirements \in BOOLEAN
    /\ events = { }
    /\ spawned = << >>
    /\ venv_runs = 0
    /\ root_exit = NotExited

InitMain == HandlerInit /\ MainInit

NextMain ==
    \/ Bootstrap
    \/ Relaunch
    \/ BootstrapFails
    \/ Body
    \/ BodyRaises
    \/ ReexecExit
    \/ ChildKilled
    \/ Interrupt

SpecMain == InitMain /\ [][NextMain]_vars

----------------------------------------------------------------------------
\* Claims about the callback handler, checked under Spec.

\* The last step handled a request on the callback path.
OnCallback == local.kind = "callback"

\* C1: after a callback-path request whose state parameter differs from
\* expected_state, the result has error set and code unset, whatever was
\* handled before it.
C1_MismatchLeavesErrorOnly ==
    (OnCallback /\ local.state # expected_state)
        => (Truthy(result.error) /\ result.code = None)

\* C2: first-write-wins: a request that finds a code or an error already
\* written leaves both fields of the result as it found them.
C2_FirstWriteWins ==
    (local.kind \in {"callback", "notfound", "raised"} /\ before # CallbackResult)
        => result = before

\* C3: the result never has both code and error set.
C3_AtMostOneField == ~(Truthy(result.code) /\ Truthy(result.error))

\* C4: after a callback-path request with matching state and a non-empty code
\* (and no error parameter, so that the request is a valid callback), the
\* result has code set to that code and error unset.
C4_ValidCallbackLeavesCodeOnly ==
    (OnCallback /\ local.state = expected_state /\ local.code # EmptyStr
        /\ local.error = EmptyStr)
        => (result.code = Some(local.code) /\ result.error = None)

C6_RulePriority ==
    OnCallback =>
        IF local.error # EmptyStr
        THEN result = [before EXCEPT !.error = Some(ERR_PROVIDER \o local.error)]
        ELSE IF local.code = EmptyStr
        THEN result = [before EXCEPT !.error = Some(ERR_MISSING_CODE)]
        ELSE IF local.state # expected_state
        THEN result = [before EXCEPT !.error = Some(ERR_STATE_MISMATCH)]
        ELSE result = [before EXCEPT !.code = Some(local.code)]

\* An error parameter together with a mismatched state and a code: the
\* provider error was written.
C6_Witness ==
    /\ OnCallback
    /\ local.error = << "<" >>
    /\ local.code # EmptyStr
    /\ local.state # expected_state
    /\ result.error = Some(<< "Strava returned error: ", "<" >>)

\* C7: the result a newly started attempt's handler reads and writes is
\* empty: it holds nothing written during an earlier attempt.
C7_AttemptStartsEmpty == local.kind = "restarted" => result = CallbackResult

\* C9: the page of a callback-path request shows the confirmation exactly
\* when the result's error is empty after the request, and the failure with
\* the (escaped) error otherwise; so a valid callback that finds an earlier
\* error is answered with the failure page.
C9_PageFollowsCell ==
    OnCallback =>
        /\ ~Truthy(result.error)
              => message = << "Authorization received. You can close this tab and return to the terminal." >>
        /\ Truthy(result.error)
              => message = << "Authorization failed: " >> \o html_escape(result.error[1])
        /\ (local.rule = "code" /\ Truthy(before.error))
              => message[1] = "Authorization failed: "

C9_Witness ==
    /\ OnCallback
    /\ local.rule = "code"
    /\ before.error = Some(<< "Strava returned error: ", "<" >>)
    /\ message = << "Authorization failed: ", "Strava returned error: ", "&lt;" >>

----------------------------------------------------------------------------
\* Claims about the process, checked under SpecMain.

Exited == root_exit # NotExited

\* C8: the exit code is 0 when the run succeeds, 1 when an exception escapes
\* main, 130 when the operator interrupts; a non-zero exit comes only from a
\* fatal step (exit 1) or an interruption (exit 130), and 130 comes from
\* nothing but an interruption.
C8_ExitCodes ==
    Exited =>
        /\ root_exit.why = "success" => root_exit.status = 0
        /\ root_exit.why = "exception" => root_exit.status = 1
        /\ root_exit.why = "interrupt" => root_exit.status = 130
        /\ \/ root_exit.status = 0
           \/ root_exit.status = 1 /\ events \cap { "exception", "pipeline_failed" } # { }
           \/ root_exit.status = 130 /\ "interrupt" \in events

\* C10: the script is re-launched at most once.  Nothing is prepared or
\* spawned when --no-bootstrap-env or --env-bootstrapped is given, inside a
\* virtualenv, or without requirements.txt; a spawned child gets
\* --env-bootstrapped exactly once and spawns nothing itself; and the parent
\* ends by SystemExit of the return code subprocess.call gave it, without
\* running the rest of main.
C10_RelaunchOnce ==
    stack # << >> =>
        /\ Len(spawned) <= 1
        /\ venv_runs <= 1
        /\ \A i \in 1..Len(spawned) : Count(spawned[i], "--env-bootstrapped") = 1
        /\ venv_runs > 0 =>
              /\ ~Has(stack[1].argv, "--no-bootstrap-env")
              /\ ~Has(stack[1].argv, "--env-bootstrapped")
              /\ ~Has(stack[1].argv, "--env-boot")
              /\ ~stack[1].in_venv
              /\ requirements
        /\ spawned # << >> =>
              /\ venv_runs = 1
              /\ ~stack[1].body
              /\ Len(stack) <= 2
              /\ Exited => root_exit.why \in { "child", "interrupt" }
              /\ root_exit.why = "child" => root_exit.arg = Some(stack[1].childrc)

\* A child was spawned, ran the rest of main itself and failed; the parent
\* ended with the child's status.
C10_Witness ==
    /\ Len(spawned) = 1
    /\ spawned[1] = << "--local-only", "--env-bootstrapped" >>
    /\ root_exit.why = "child"
    /\ root_exit.status = 2
    /\ stack[1].childrc = 2

====
